---- MODULE Spec2Model ----
(***************************************************************************)
(* Model of the spatial-media box engine: the SA3D spatial-audio box       *)
(* (SA3DBox::load / create / save) and the top-level MP4 container         *)
(* (Mpeg4Container::load / save / merge).                                  *)
(*                                                                         *)
(* uint32_t values are kept at their width.  A uint32_t is the pair        *)
(* <<hi, lo>> of its two 16-bit halves, so that wrap-around at 2^32 and    *)
(* the truncation of a 64-bit size are computed as the machine does.  A    *)
(* uint64_t is the pair <<high word, low word>> of two uint32_t.           *)
(***************************************************************************)
EXTENDS Integers, Naturals, Sequences, FiniteSets, TLC

VARIABLES
    fs,        \* bytes of the input stream handed to SA3DBox::load
    box,       \* the SA3DBox most recently returned by a factory, or NULL
    boxFrom,   \* which factory returned box: "none", "create", "load"
    fsOut,     \* bytes written to the output stream by SA3DBox::save
    saved,     \* the box whose bytes fsOut holds, or NULL
    call,      \* the last SA3DBox call made and its arguments
    display,   \* the last display call made on box and what it streamed
    mp4,       \* the input file handed to Mpeg4Container::load
    cont,      \* the Mpeg4Container returned by load, or NULL
    parsed,    \* the top-level list load_multiple returned to the last load
    inserted,  \* the box inserted into the child list after load, or NULL
    saves,     \* the children's save calls made by the last container save
    lastOp,    \* the last container operation
    exited,    \* TRUE once the process has called exit()
    loadSpan,  \* the end of the span the last load handed to load_multiple
    edit,      \* the change made to one child of the list after load, or NULL
    steps,     \* the steps of the last container save, in the order taken
    resaved,   \* TRUE when the last container save directly followed another one
    beat       \* the beat-marker filter: its private data and the frame in work

sa3dVars == <<fs, box, boxFrom, fsOut, saved, call, display>>

contVars == <<mp4, cont, parsed, inserted, saves, lastOp, exited, loadSpan, edit, steps, resaved>>

vars == <<fs, box, boxFrom, fsOut, saved, call, display,
          mp4, cont, parsed, inserted, saves, lastOp, exited, loadSpan, edit, steps, resaved,
          beat>>

NULL == [null |-> TRUE]

----------------------------------------------------------------------------
(* Bounds of the model                                                     *)

MaxChannels == 16      \* create(n) is called with 0 <= n <= MaxChannels
MaxCraftChannels == 2  \* channel counts / map lengths of crafted input boxes
MaxBoxes == 4          \* top-level boxes of an input file
MaxLoadChannels == MaxChannels + MaxCraftChannels  \* longest channel-map loop of load that is followed

----------------------------------------------------------------------------
(* uint32_t / uint64_t arithmetic                                          *)

Half == 65536          \* 2^16: one half of a uint32_t
ByteRange == 256       \* 2^8

U32(n) == <<n \div Half, n % Half>>          \* 0 <= n < 2^31
Nat32(v) == v[1] * Half + v[2]               \* only for v < 2^31
IsSmall(v) == v[1] < 32768

Add32(a, b) ==
    LET lo == a[2] + b[2]
        hi == a[1] + b[1] + (lo \div Half)
    IN  <<hi % Half, lo % Half>>

Carry32(a, b) ==
    LET lo == a[2] + b[2]
        hi == a[1] + b[1] + (lo \div Half)
    IN  hi >= Half

Sub32(a, b) ==
    LET lo == a[2] - b[2]
        hi == a[1] - b[1] - (IF lo < 0 THEN 1 ELSE 0)
    IN  <<hi % Half, lo % Half>>

Gt32(a, b) == a[1] > b[1] \/ (a[1] = b[1] /\ a[2] > b[2])

Zero32 == <<0, 0>>
One32 == <<0, 1>>
Max32 == <<65535, 65535>>

\* (int32_t) of a uint64_t, stored back into a uint32_t: the low 32 bits
Trunc32(v64) == v64[2]

----------------------------------------------------------------------------
(* Binary I/O helpers of Box: big-endian, fixed width                      *)

\* The byte at 0-based offset o; a read at or past the end of the stream
\* fails and leaves the caller's buffer indeterminate (garbage byte g).
ByteAt(s, o, g) == IF o < Len(s) THEN s[o + 1] ELSE g

readUint8(s, o, g) == ByteAt(s, o, g)

readUint32(s, o, g) ==
    << ByteAt(s, o, g) * ByteRange + ByteAt(s, o + 1, g),
       ByteAt(s, o + 2, g) * ByteRange + ByteAt(s, o + 3, g) >>

readUint64(s, o, g) == << readUint32(s, o, g), readUint32(s, o + 4, g) >>

readName(s, o, g) ==
    << ByteAt(s, o, g), ByteAt(s, o + 1, g), ByteAt(s, o + 2, g), ByteAt(s, o + 3, g) >>

writeUint8(v) == << v >>

writeUint32(v) ==
    << v[1] \div ByteRange, v[1] % ByteRange, v[2] \div ByteRange, v[2] % ByteRange >>

writeUint64(v64) == writeUint32(v64[1]) \o writeUint32(v64[2])

----------------------------------------------------------------------------
(* Tags                                                                    *)

TAG_SA3D == <<83, 65, 51, 68>>     \* "SA3D"
TAG_SXXX == <<83, 88, 88, 88>>     \* "SXXX": shares only the first byte
TAG_SA3E == <<83, 65, 51, 69>>     \* "SA3E": differs in the last byte
TAG_MOOV == <<109, 111, 111, 118>> \* "moov"

\* sizeof(*constants::TAG_SA3D): the size of one char
SizeofTagDeref == 1

\* memcmp(a, b, n) == 0
memcmpEq(a, b, n) == \A i \in 1..n : a[i] = b[i]

----------------------------------------------------------------------------
(* Box                                                                     *)

\* Box::size(): header size plus content size, a uint32_t
size(b) == Add32(U32(b.headerSize), b.contentSize)

\* SA3DBox::SA3DBox()
SA3DBox_new ==
    [ name |-> TAG_SA3D, headerSize |-> 8, position |-> Zero32,
      contentSize |-> Zero32, version |-> 0, ambisonicType |-> 0,
      ambisonicOrder |-> Zero32, channelOrdering |-> 0, normalization |-> 0,
      numChannels |-> Zero32, channelMap |-> <<>> ]


\* memcmp(name, constants::TAG_SA3D, sizeof(*constants::TAG_SA3D)) == 0:
\* the length handed to memcmp is the size of one char of the tag
load_tagMatches(name) == memcmpEq(name, TAG_SA3D, SizeofTagDeref)

\* iPos + iSize > iEnd, computed in uint32_t
load_exceedsBounds(iPos, iSize, iEnd) == Gt32(Add32(iPos, iSize), iEnd)

\* pNewBox->m_iContentSize = iSize - pNewBox->m_iHeaderSize, in uint32_t;
\* m_iHeaderSize is the 8 set by the constructor
load_contentSize(iSize, headerSize) == Sub32(iSize, U32(headerSize))

\* SA3DBox::load(fs, iPos, iEnd) on the stream s.  The result is the box (or
\* NULL) and rdEnd, the offset one past the last byte the call read.
\* (iPos is unsigned: the "iPos < 0" branch is never taken.)
SA3DBox_load(s, iPos, iEnd, g) ==
    LET p == Nat32(iPos)
        iSize32 == readUint32(s, p, g)
        name == readName(s, p + 4, g)
        ext == (iSize32 = One32)
        iSize == IF ext THEN Trunc32(readUint64(s, p + 8, g)) ELSE iSize32
        cur == IF ext THEN p + 16 ELSE p + 8
    IN  IF ~load_tagMatches(name) THEN [box |-> NULL, rdEnd |-> cur]
        ELSE IF load_exceedsBounds(iPos, iSize, iEnd) THEN [box |-> NULL, rdEnd |-> cur]
        ELSE
          LET nb == SA3DBox_new
              nc == readUint32(s, cur + 8, g)
              n == Nat32(nc)
          IN  [ box |->
                  [ nb EXCEPT
                      !.position = iPos,
                      !.contentSize = load_contentSize(iSize, nb.headerSize),
                      !.version = readUint8(s, cur, g),
                      !.ambisonicType = readUint8(s, cur + 1, g),
                      !.ambisonicOrder = readUint32(s, cur + 2, g),
                      !.channelOrdering = readUint8(s, cur + 6, g),
                      !.normalization = readUint8(s, cur + 7, g),
                      !.numChannels = nc,
                      !.channelMap = [i \in 1..n |-> readUint32(s, cur + 12 + 4 * (i - 1), g)] ],
                rdEnd |-> cur + 12 + 4 * n ]

\* The channel count load would loop over, before the loop runs
load_numChannels(s, iPos, g) ==
    LET p == Nat32(iPos)
        cur == IF readUint32(s, p, g) = One32 THEN p + 16 ELSE p + 8
    IN  readUint32(s, cur + 8, g)

\* floor of the square root: ::sqrt on a small int is exact to the last bit,
\* and the conversion of the double to uint32_t truncates
ISqrt(n) == CHOOSE r \in 0..n : r * r <= n /\ (r + 1) * (r + 1) > n

\* create_order without the "- 1"
create_order_noMinusOne(n, ub) == IF n >= 1 THEN U32(ISqrt(n)) ELSE ub

\* pNewBox->m_iAmbisonicOrder = ::sqrt(iNumChannels) - 1.  For n = 0 the
\* double -1.0 is converted to an unsigned type, which is undefined: ub is
\* the value the build produces.
create_order(n, ub) == IF n >= 1 THEN U32(ISqrt(n) - 1) ELSE ub

UndefinedOrders == {Zero32, Max32}

\* m_iContentSize accumulated field by field
create_contentSize(n) == U32(1 + 1 + 4 + 1 + 1 + 4 + 4 * n)

\* create filling the channel map from 1 instead of 0
SA3DBox_create_mapFromOne(n, ub) ==
    [ SA3DBox_new EXCEPT
        !.headerSize = 8,
        !.name = TAG_SA3D,
        !.ambisonicOrder = create_order(n, ub),
        !.version = 0,
        !.contentSize = create_contentSize(n),
        !.numChannels = U32(n),
        !.channelMap = [i \in 1..n |-> U32(i)] ]

\* SA3DBox::create(iNumChannels)
SA3DBox_create(n, ub) ==
    [ SA3DBox_new EXCEPT
        !.headerSize = 8,
        !.name = TAG_SA3D,
        !.ambisonicOrder = create_order(n, ub),
        !.version = 0,
        !.contentSize = create_contentSize(n),
        !.numChannels = U32(n),
        !.channelMap = [i \in 1..n |-> U32(i - 1)] ]

RECURSIVE writeMap(_)
writeMap(m) == IF m = <<>> THEN <<>> ELSE writeUint32(Head(m)) \o writeMap(Tail(m))

\* The header written by SA3DBox::save, chosen by m_iHeaderSize
save_header(b) ==
    IF b.headerSize = 16
    THEN writeUint32(One32) \o b.name \o writeUint64(<<Zero32, size(b)>>)
    ELSE IF b.headerSize = 8
    THEN writeUint32(size(b)) \o b.name
    ELSE <<>>

\* save_content writing the channel map before the channel count
save_content_mapFirst(b) ==
    writeUint8(b.version) \o writeUint8(b.ambisonicType)
      \o writeUint32(b.ambisonicOrder)
      \o writeUint8(b.channelOrdering) \o writeUint8(b.normalization)
      \o writeMap(b.channelMap) \o writeUint32(b.numChannels)

\* The six fixed fields and the channel map written by SA3DBox::save
save_content(b) ==
    writeUint8(b.version) \o writeUint8(b.ambisonicType)
      \o writeUint32(b.ambisonicOrder)
      \o writeUint8(b.channelOrdering) \o writeUint8(b.normalization)
      \o writeUint32(b.numChannels) \o writeMap(b.channelMap)

\* SA3DBox::save(fsIn, fsOut, delta): the bytes appended to fsOut
SA3DBox_save(b) == save_header(b) \o save_content(b)

----------------------------------------------------------------------------
(* Operations on the SA3D box                                              *)

\* SA3DBox::ambisonic_type_name(): return NULL
ambisonic_type_name(b) == NULL

\* SA3DBox::ambisonic_channel_ordering_name(): return NULL
ambisonic_channel_ordering_name(b) == NULL

\* SA3DBox::ambisonic_normalization_name(): return NULL
ambisonic_normalization_name(b) == NULL

\* The const char * operands print_box hands to operator<<, in order
print_box_names(b) ==
    << ambisonic_type_name(b), ambisonic_channel_ordering_name(b),
       ambisonic_normalization_name(b) >>

\* The const char * operands get_metadata_string hands to operator<<, in order
get_metadata_string_names(b) ==
    << ambisonic_normalization_name(b), ambisonic_channel_ordering_name(b),
       ambisonic_type_name(b) >>

\* operator<< on a null const char * is undefined: the build either
\* dereferences it or sets the stream's badbit and drops the rest
NullStreamOutcomes == {"crash", "badbit"}

streamOutcome(names, u) ==
    IF \E i \in 1..Len(names) : names[i] = NULL THEN u ELSE "ok"

NoDisplay == [op |-> "none", names |-> <<>>, outcome |-> "ok"]

\* The beat-marker filter before beatmarker_filter_init
NoBeat ==
    [ filter |-> "none", is_initialized |-> FALSE, pc |-> "idle",
      mono_size |-> 0, num_samples |-> 0, i |-> 0, read |-> -1 ]

NoCall == [op |-> "none", src |-> "none", pos |-> Zero32, end |-> Zero32, rdEnd |-> 0]

ContainerIdle ==
    /\ mp4 = [boxes |-> <<>>, length |-> 0]
    /\ cont = NULL
    /\ parsed = <<>>
    /\ inserted = NULL
    /\ saves = <<>>
    /\ lastOp = "none"
    /\ exited = FALSE
    /\ loadSpan = 0
    /\ edit = NULL
    /\ steps = <<>>
    /\ resaved = FALSE

InitSA3D ==
    /\ beat = NoBeat
    /\ ContainerIdle
    /\ fs = <<>>
    /\ box = NULL
    /\ boxFrom = "none"
    /\ fsOut = <<>>
    /\ saved = NULL
    /\ call = NoCall
    /\ display = NoDisplay

\* the process is still running: no display call has dereferenced a null name
Running == display.outcome # "crash"

\* Box *b = SA3DBox::create(n)
Create(n, ub) ==
    /\ Running
    /\ box' = SA3DBox_create(n, ub)
    /\ boxFrom' = "create"
    /\ call' = [NoCall EXCEPT !.op = "create"]
    /\ UNCHANGED <<fs, fsOut, saved>>
    /\ UNCHANGED contVars
    /\ UNCHANGED beat
    /\ UNCHANGED display

\* The caller forces the extended header form: b->m_iHeaderSize = 16
SetHeaderSize16 ==
    /\ Running
    /\ box # NULL
    /\ box.headerSize = 8
    /\ box' = [box EXCEPT !.headerSize = 16]
    /\ call' = [NoCall EXCEPT !.op = "setHeaderSize"]
    /\ UNCHANGED <<fs, boxFrom, fsOut, saved>>
    /\ UNCHANGED contVars
    /\ UNCHANGED beat
    /\ UNCHANGED display

\* b->save(fsIn, fsOut, delta) on a freshly opened output stream
Save ==
    /\ Running
    /\ box # NULL
    /\ fsOut = <<>>
    /\ fsOut' = SA3DBox_save(box)
    /\ saved' = [b |-> box, from |-> boxFrom]
    /\ call' = [NoCall EXCEPT !.op = "save"]
    /\ UNCHANGED <<fs, box, boxFrom>>
    /\ UNCHANGED contVars
    /\ UNCHANGED beat
    /\ UNCHANGED display

\* The output file is closed and a new, empty one is opened
NewOutput ==
    /\ Running
    /\ fsOut # <<>>
    /\ fsOut' = <<>>
    /\ saved' = NULL
    /\ call' = [NoCall EXCEPT !.op = "newOutput"]
    /\ UNCHANGED <<fs, box, boxFrom>>
    /\ UNCHANGED contVars
    /\ UNCHANGED beat
    /\ UNCHANGED display

\* Box *b = SA3DBox::load(s, iPos, iEnd), s being the stream named src
LoadFrom(s, src, iPos, iEnd, g) ==
    /\ Running
    /\ LET nc == load_numChannels(s, iPos, g)
       IN  nc[1] = 0 /\ nc[2] <= MaxLoadChannels
    /\ LET r == SA3DBox_load(s, iPos, iEnd, g)
       IN  /\ box' = r.box
           /\ boxFrom' = IF r.box = NULL THEN "none" ELSE "load"
           /\ call' = [op |-> "load", src |-> src, pos |-> iPos, end |-> iEnd,
                       rdEnd |-> r.rdEnd]

GarbageBytes == {0, 255}

\* The bytes written by save are read back from the start of the file
LoadSaved(iEnd, g) ==
    /\ fsOut # <<>>
    /\ LoadFrom(fsOut, "out", Zero32, iEnd, g)
    /\ UNCHANGED <<fs, fsOut, saved>>
    /\ UNCHANGED contVars
    /\ UNCHANGED beat
    /\ UNCHANGED display

\* b->print_box()
PrintBox(u) ==
    /\ Running
    /\ box # NULL
    /\ display' = [ op |-> "print_box", names |-> print_box_names(box),
                    outcome |-> streamOutcome(print_box_names(box), u) ]
    /\ UNCHANGED <<fs, box, boxFrom, fsOut, saved, call>>
    /\ UNCHANGED contVars
    /\ UNCHANGED beat

\* b->get_metadata_string()
GetMetadataString(u) ==
    /\ Running
    /\ box # NULL
    /\ display' = [ op |-> "get_metadata_string",
                    names |-> get_metadata_string_names(box),
                    outcome |-> streamOutcome(get_metadata_string_names(box), u) ]
    /\ UNCHANGED <<fs, box, boxFrom, fsOut, saved, call>>
    /\ UNCHANGED contVars
    /\ UNCHANGED beat

NextSA3D ==
    \/ \E n \in 0..MaxChannels, ub \in UndefinedOrders : Create(n, ub)
    \/ SetHeaderSize16
    \/ Save
    \/ NewOutput
    \/ \E e \in {Len(fsOut), Len(fsOut) - 1}, g \in GarbageBytes : LoadSaved(U32(e), g)
    \/ \E u \in NullStreamOutcomes : PrintBox(u)
    \/ \E u \in NullStreamOutcomes : GetMetadataString(u)

Spec == InitSA3D /\ [][NextSA3D]_vars

----------------------------------------------------------------------------
(* Crafted input: an SA3D box whose header was tampered with               *)

CraftedSizes == {U32(0), U32(1), U32(24), U32(28), U32(40), Max32}
CraftedTags == {TAG_SA3D, TAG_SXXX, TAG_SA3E, TAG_MOOV}
CraftedExtSizes == {<<Zero32, U32(32)>>, <<One32, U32(32)>>, <<Zero32, U32(48)>>}
CraftedPads == {0, 8}
CraftedLeads == {0, 4}

\* lead bytes of other data, the header (with the 64-bit size when the size
\* field is 1), the content of a box of nc channels, pad bytes of other data
CraftedFile(lead, sizeField, tag, ext64, nc, pad) ==
    [i \in 1..lead |-> 170]
      \o writeUint32(sizeField) \o tag
      \o (IF sizeField = One32 THEN writeUint64(ext64) ELSE <<>>)
      \o save_content(SA3DBox_create(nc, Zero32))
      \o [i \in 1..pad |-> 170]

InitCrafted ==
    /\ beat = NoBeat
    /\ ContainerIdle
    /\ \E lead \in CraftedLeads, sizeField \in CraftedSizes, tag \in CraftedTags,
          ext64 \in CraftedExtSizes, nc \in 0..MaxCraftChannels, pad \in CraftedPads :
            fs = CraftedFile(lead, sizeField, tag, ext64, nc, pad)
    /\ box = NULL
    /\ boxFrom = "none"
    /\ fsOut = <<>>
    /\ saved = NULL
    /\ call = NoCall
    /\ display = NoDisplay

\* Box *b = SA3DBox::load(fs, iPos, iEnd) on the crafted input
LoadCrafted(iPos, iEnd, g) ==
    /\ LoadFrom(fs, "in", iPos, iEnd, g)
    /\ UNCHANGED <<fs, fsOut, saved>>
    /\ UNCHANGED contVars
    /\ UNCHANGED beat
    /\ UNCHANGED display

CraftedEnds == {U32(8), U32(24), U32(28), U32(32), U32(Len(fs)), Max32}

NextCrafted ==
    \E p \in CraftedLeads, e \in CraftedEnds, g \in GarbageBytes : LoadCrafted(U32(p), e, g)

SpecCrafted == InitCrafted /\ [][NextCrafted]_vars

----------------------------------------------------------------------------
(* Properties of the SA3D box                                              *)

LoadedIn == call.op = "load" /\ call.src = "in"
LoadedOut == call.op = "load" /\ call.src = "out"

\* the tag and the declared size of the box at the position load was given
TagAtPos == readName(fs, Nat32(call.pos) + 4, 0)
DeclaredSize ==
    LET p == Nat32(call.pos)
    IN  IF readUint32(fs, p, 0) = One32 THEN readUint64(fs, p + 8, 0)
        ELSE <<Zero32, readUint32(fs, p, 0)>>

\* pos + size > end over the integers, size being a 64-bit value
ExceedsEnd(pos, size64, end) ==
    \/ size64[1] # Zero32
    \/ Carry32(pos, size64[2])
    \/ Gt32(Add32(pos, size64[2]), end)

\* C1: load at a position whose 4-byte tag differs from 'SA3D' in any of its
\* four bytes returns null, whatever the size field and the following bytes.
C1_TagMismatchRejected ==
    (LoadedIn /\ TagAtPos # TAG_SA3D) => box = NULL

\* C2: if pos + size > end (size 32-bit, or 64-bit via the escape) load returns
\* null, and load never reads a byte at or beyond end.
C2_BoundsRejected ==
    LoadedIn =>
      /\ ExceedsEnd(call.pos, DeclaredSize, call.end) => box = NULL
      /\ ~Gt32(U32(call.rdEnd), call.end)

SavedByCreate ==
    /\ saved # NULL
    /\ saved.from = "create"
    /\ saved.b.headerSize = 8
    /\ saved.b.numChannels # Zero32

ReadBackWhole == LoadedOut /\ call.end = U32(Len(fsOut))

\* C3: for n >= 1, the box made by create(n), written by save and parsed back
\* by load from the start of the written bytes has the same version, type,
\* order, ordering, normalization, channel count and channel map.
C3_CreateSaveLoadRoundTrip ==
    (ReadBackWhole /\ SavedByCreate) =>
      /\ box # NULL
      /\ box.version = saved.b.version
      /\ box.ambisonicType = saved.b.ambisonicType
      /\ box.ambisonicOrder = saved.b.ambisonicOrder
      /\ box.channelOrdering = saved.b.channelOrdering
      /\ box.normalization = saved.b.normalization
      /\ box.numChannels = saved.b.numChannels
      /\ box.channelMap = saved.b.channelMap

C3_Witness ==
    /\ ReadBackWhole /\ SavedByCreate
    /\ box # NULL
    /\ box.numChannels = U32(4)
    /\ box.channelMap = <<U32(0), U32(1), U32(2), U32(3)>>

\* C4: a box whose header size is 16 is written as the 32-bit value 1, the tag,
\* the 64-bit value 16 + contentSize, and load of those bytes yields a box with
\* the contentSize of the box that was saved.
C4_ExtendedRoundTrip ==
    (ReadBackWhole /\ saved # NULL /\ saved.b.headerSize = 16) =>
      /\ SubSeq(fsOut, 1, 4) = writeUint32(One32)
      /\ SubSeq(fsOut, 5, 8) = saved.b.name
      /\ SubSeq(fsOut, 9, 16) = writeUint64(<<Zero32, Add32(U32(16), saved.b.contentSize)>>)
      /\ box # NULL
      /\ box.contentSize = saved.b.contentSize

\* C9: for every n >= 1, create(n) sets the ambisonic order to
\* floor(sqrt(n)) - 1: create(4) gives 1, create(9) gives 2, create(16) gives 3.
C9_CreateOrder ==
    (boxFrom = "create" /\ box.numChannels # Zero32) =>
      LET n == Nat32(box.numChannels)
          o == Nat32(box.ambisonicOrder)
      IN  /\ IsSmall(box.ambisonicOrder)
          /\ (o + 1) * (o + 1) <= n
          /\ n < (o + 2) * (o + 2)
          /\ (n = 4 => o = 1)
          /\ (n = 9 => o = 2)
          /\ (n = 16 => o = 3)

C9_Witness ==
    /\ boxFrom = "create"
    /\ box.numChannels = U32(16)
    /\ box.ambisonicOrder = U32(3)

\* C10: every box returned by create or by a successful load satisfies
\* contentSize == 12 + 4 * channelCount.
C10_ContentSizeInvariant ==
    (box # NULL /\ boxFrom \in {"create", "load"}) =>
      box.contentSize = U32(12 + 4 * Nat32(box.numChannels))

\* C11: every box returned by create(n) or by a successful load has a channel
\* map whose length equals its channel count, and for create(n) the map is
\* the identity sequence 0, 1, ..., n-1.
C11_ChannelMapLength ==
    (box # NULL /\ boxFrom \in {"create", "load"}) =>
      /\ Len(box.channelMap) = Nat32(box.numChannels)
      /\ boxFrom = "create" =>
           \A i \in 1..Len(box.channelMap) : Nat32(box.channelMap[i]) = i - 1

C11_Witness ==
    /\ boxFrom = "create"
    /\ box.numChannels = U32(3)
    /\ box.channelMap = <<U32(0), U32(1), U32(2)>>

C11_WitnessLoad ==
    /\ boxFrom = "load"
    /\ box # NULL
    /\ box.numChannels = U32(2)
    /\ Len(box.channelMap) = 2

\* C13: a box parsed by load from bytes that use the 64-bit extended-size
\* escape has header size 16 after load, so that save of the loaded box writes
\* the extended form again (marker 1, tag, 64-bit size).
C13_ExtendedHeaderPreserved ==
    (ReadBackWhole /\ box # NULL /\ readUint32(fsOut, 0, 0) = One32) =>
      /\ box.headerSize = 16
      /\ SubSeq(SA3DBox_save(box), 1, 4) = writeUint32(One32)
      /\ SubSeq(SA3DBox_save(box), 5, 8) = box.name
      /\ SubSeq(SA3DBox_save(box), 9, 16) = writeUint64(<<Zero32, size(box)>>)

\* C15: print_box and get_metadata_string tolerate the null value the three
\* name accessors return: on no path do they pass a null name pointer into
\* string formatting.
C15_NullNamesTolerated ==
    display.op \in {"print_box", "get_metadata_string"} =>
      /\ \A i \in 1..Len(display.names) : display.names[i] # NULL
      /\ display.outcome = "ok"

----------------------------------------------------------------------------
(* The top-level MP4 container                                             *)

TAG_MDAT == <<109, 100, 97, 116>>  \* "mdat"
TAG_FTYP == <<102, 116, 121, 112>> \* "ftyp"
TAG_FREE == <<102, 114, 101, 101>> \* "free"
TAG_UUID == <<117, 117, 105, 100>> \* "uuid"

NULLPTR == 0

\* The kinds of top-level box an input file is made of: tag, header form and
\* content length
TopKinds ==
    { [name |-> TAG_FTYP, headerSize |-> 8, contentSize |-> 4],
      [name |-> TAG_MOOV, headerSize |-> 8, contentSize |-> 8],
      [name |-> TAG_FREE, headerSize |-> 8, contentSize |-> 0],
      [name |-> TAG_MDAT, headerSize |-> 8, contentSize |-> 4],
      [name |-> TAG_MDAT, headerSize |-> 16, contentSize |-> 8],
      [name |-> TAG_UUID, headerSize |-> 8, contentSize |-> 4] }

Truncations == {0, 4}

RECURSIVE TotalLength(_)
TotalLength(bs) ==
    IF bs = <<>> THEN 0
    ELSE Head(bs).headerSize + Head(bs).contentSize + TotalLength(Tail(bs))

InputFiles ==
    { [boxes |-> bs, length |-> TotalLength(bs) - t] :
        bs \in UNION { [1..n -> TopKinds] : n \in 0..MaxBoxes },
        t \in Truncations } \ { [boxes |-> <<>>, length |-> 0 - t] : t \in Truncations \ {0} }

\* Container::load_multiple(fs, iPos, iEnd): the boxes of the span, each at
\* the position where the one before it ends; the load of a box that does not
\* fit into the span fails, and a failure gives the empty list.  The box that
\* is the i-th of the file has the address (id) i.
RECURSIVE load_boxes(_, _, _, _)
load_boxes(bs, i, iPos, iEnd) ==
    IF iPos >= iEnd \/ i > Len(bs) THEN [ok |-> TRUE, list |-> <<>>]
    ELSE
      LET b == bs[i]
          sz == b.headerSize + b.contentSize
      IN  IF iPos + sz > iEnd THEN [ok |-> FALSE, list |-> <<>>]
          ELSE
            LET rest == load_boxes(bs, i + 1, iPos + sz, iEnd)
                this == [ id |-> i, name |-> b.name, position |-> U32(iPos),
                          headerSize |-> b.headerSize,
                          contentSize |-> U32(b.contentSize) ]
            IN  IF rest.ok THEN [ok |-> TRUE, list |-> <<this>> \o rest.list]
                ELSE rest

load_multiple(f, iPos, iEnd) == load_boxes(f.boxes, 1, iPos, iEnd).list

\* Mpeg4Container::Mpeg4Container()
Mpeg4Container_new ==
    [ listContents |-> <<>>, pMoovBox |-> NULLPTR, pFreeBox |-> NULLPTR,
      pFirstMDatBox |-> NULLPTR, pFTYPBox |-> NULLPTR,
      iFirstMDatPos |-> Zero32, contentSize |-> Zero32 ]

\* load_scan storing the 'ftyp' match into the free-space reference
RECURSIVE load_scan_ftypIntoFree(_, _)
load_scan_ftypIntoFree(c, lst) ==
    IF lst = <<>> THEN c
    ELSE
      LET pBox == Head(lst)
          c1 == IF memcmpEq(pBox.name, TAG_MOOV, 4)
                THEN [c EXCEPT !.pMoovBox = pBox.id] ELSE c
          c2 == IF memcmpEq(pBox.name, TAG_FREE, 4)
                THEN [c1 EXCEPT !.pFreeBox = pBox.id] ELSE c1
          c3 == IF memcmpEq(pBox.name, TAG_MDAT, 4) /\ c2.pFirstMDatBox = NULLPTR
                THEN [c2 EXCEPT !.pFirstMDatBox = pBox.id] ELSE c2
          c4 == IF memcmpEq(pBox.name, TAG_FTYP, 4)
                THEN [c3 EXCEPT !.pFreeBox = pBox.id] ELSE c3
      IN  load_scan_ftypIntoFree(c4, Tail(lst))

\* load_scan without the "not yet set" test on the media-data reference
RECURSIVE load_scan_lastMdat(_, _)
load_scan_lastMdat(c, lst) ==
    IF lst = <<>> THEN c
    ELSE
      LET pBox == Head(lst)
          c1 == IF memcmpEq(pBox.name, TAG_MOOV, 4)
                THEN [c EXCEPT !.pMoovBox = pBox.id] ELSE c
          c2 == IF memcmpEq(pBox.name, TAG_FREE, 4)
                THEN [c1 EXCEPT !.pFreeBox = pBox.id] ELSE c1
          c3 == IF memcmpEq(pBox.name, TAG_MDAT, 4)
                THEN [c2 EXCEPT !.pFirstMDatBox = pBox.id] ELSE c2
          c4 == IF memcmpEq(pBox.name, TAG_FTYP, 4)
                THEN [c3 EXCEPT !.pFTYPBox = pBox.id] ELSE c3
      IN  load_scan_lastMdat(c4, Tail(lst))

\* load_scan with the "not yet set" test on all four references
RECURSIVE load_scan_firstMatchAll(_, _)
load_scan_firstMatchAll(c, lst) ==
    IF lst = <<>> THEN c
    ELSE
      LET pBox == Head(lst)
          c1 == IF memcmpEq(pBox.name, TAG_MOOV, 4) /\ c.pMoovBox = NULLPTR
                THEN [c EXCEPT !.pMoovBox = pBox.id] ELSE c
          c2 == IF memcmpEq(pBox.name, TAG_FREE, 4) /\ c1.pFreeBox = NULLPTR
                THEN [c1 EXCEPT !.pFreeBox = pBox.id] ELSE c1
          c3 == IF memcmpEq(pBox.name, TAG_MDAT, 4) /\ c2.pFirstMDatBox = NULLPTR
                THEN [c2 EXCEPT !.pFirstMDatBox = pBox.id] ELSE c2
          c4 == IF memcmpEq(pBox.name, TAG_FTYP, 4) /\ c3.pFTYPBox = NULLPTR
                THEN [c3 EXCEPT !.pFTYPBox = pBox.id] ELSE c3
      IN  load_scan_firstMatchAll(c4, Tail(lst))

\* The pass of load over the parsed list that records the four references
RECURSIVE load_scan(_, _)
load_scan(c, lst) ==
    IF lst = <<>> THEN c
    ELSE
      LET pBox == Head(lst)
          c1 == IF memcmpEq(pBox.name, TAG_MOOV, 4)
                THEN [c EXCEPT !.pMoovBox = pBox.id] ELSE c
          c2 == IF memcmpEq(pBox.name, TAG_FREE, 4)
                THEN [c1 EXCEPT !.pFreeBox = pBox.id] ELSE c1
          c3 == IF memcmpEq(pBox.name, TAG_MDAT, 4) /\ c2.pFirstMDatBox = NULLPTR
                THEN [c2 EXCEPT !.pFirstMDatBox = pBox.id] ELSE c2
          c4 == IF memcmpEq(pBox.name, TAG_FTYP, 4)
                THEN [c3 EXCEPT !.pFTYPBox = pBox.id] ELSE c3
      IN  load_scan(c4, Tail(lst))

\* the box a pointer refers to
Deref(lst, p) == (CHOOSE i \in 1..Len(lst) : lst[i].id = p)

\* SumSizes adding the content sizes only, without the headers
RECURSIVE SumSizes_contentOnly(_)
SumSizes_contentOnly(lst) ==
    IF lst = <<>> THEN Zero32
    ELSE Add32(Head(lst).contentSize, SumSizes_contentOnly(Tail(lst)))

\* m_iContentSize += pBox->size(), over the child list
RECURSIVE SumSizes(_)
SumSizes(lst) ==
    IF lst = <<>> THEN Zero32 ELSE Add32(size(Head(lst)), SumSizes(Tail(lst)))

\* load_firstMDatPos taking the position of the box alone, without its header
load_firstMDatPos_noHeader(mdat) == mdat.position

\* m_iFirstMDatPos = m_pFirstMDatBox->m_iPosition + m_pFirstMDatBox->m_iHeaderSize
load_firstMDatPos(mdat) == Add32(mdat.position, U32(mdat.headerSize))

\* load without the test for a missing 'mdat' box
Mpeg4Container_load_noMdatCheck(list) ==
    IF list = <<>> THEN NULL
    ELSE
      LET c == load_scan([Mpeg4Container_new EXCEPT !.listContents = list], list)
      IN  IF c.pMoovBox = NULLPTR THEN NULL
          ELSE [ c EXCEPT
                   !.iFirstMDatPos =
                      IF c.pFirstMDatBox = NULLPTR THEN Zero32
                      ELSE load_firstMDatPos(list[Deref(list, c.pFirstMDatBox)]),
                   !.contentSize = SumSizes(list) ]

\* Mpeg4Container::load(fsIn), list being what load_multiple returned
Mpeg4Container_load(list) ==
    IF list = <<>> THEN NULL
    ELSE
      LET c == load_scan([Mpeg4Container_new EXCEPT !.listContents = list], list)
      IN  IF c.pMoovBox = NULLPTR THEN NULL
          ELSE IF c.pFirstMDatBox = NULLPTR THEN NULL
          ELSE [ c EXCEPT
                   !.iFirstMDatPos = load_firstMDatPos(list[Deref(list, c.pFirstMDatBox)]),
                   !.contentSize = SumSizes(list) ]

\* merge appending the element and returning, as a generic container would
Mpeg4Container_merge_appends(c, pElement) ==
    [cont |-> [c EXCEPT !.listContents = Append(@, pElement)], exited |-> FALSE]

\* Mpeg4Container::merge(pElement): exit(0)
Mpeg4Container_merge(c, pElement) == [cont |-> c, exited |-> TRUE]

\* Container::resize(): the content size is the sum of the children's sizes
resize(c) == [c EXCEPT !.contentSize = SumSizes(c.listContents)]

\* save_newPos stopping at the 'mdat' child without adding its header size
RECURSIVE save_newPos_noHeader(_)
save_newPos_noHeader(lst) ==
    IF lst = <<>> THEN Zero32
    ELSE IF memcmpEq(Head(lst).name, TAG_MDAT, 4) THEN Zero32
    ELSE Add32(size(Head(lst)), save_newPos_noHeader(Tail(lst)))

\* iNewPos of save: the sizes of the children before the first 'mdat' child,
\* plus that child's header size
RECURSIVE save_newPos(_)
save_newPos(lst) ==
    IF lst = <<>> THEN Zero32
    ELSE IF memcmpEq(Head(lst).name, TAG_MDAT, 4) THEN U32(Head(lst).headerSize)
    ELSE Add32(size(Head(lst)), save_newPos(Tail(lst)))

\* save_delta with the operands of the subtraction exchanged
save_delta_reversed(c) == Sub32(c.iFirstMDatPos, save_newPos(c.listContents))

\* iDelta = iNewPos - m_iFirstMDatPos, in uint32_t
save_delta(c) == Sub32(save_newPos(c.listContents), c.iFirstMDatPos)

\* save storing the new position of the media data into m_iFirstMDatPos
Mpeg4Container_save_movesFirstMDatPos(c) ==
    LET r == resize(c)
        iDelta == save_delta(r)
        calls == [i \in 1..Len(r.listContents) |->
                    [id |-> r.listContents[i].id, delta |-> iDelta]]
    IN  [ cont |-> [r EXCEPT !.iFirstMDatPos = save_newPos(r.listContents)],
          saves |-> calls,
          steps |-> <<[op |-> "resize"], [op |-> "delta", delta |-> iDelta]>>
                    \o [i \in 1..Len(calls) |->
                          [op |-> "save", id |-> calls[i].id, delta |-> calls[i].delta]] ]

\* save making the children's save calls from the last child to the first
Mpeg4Container_save_backwards(c) ==
    LET r == resize(c)
        iDelta == save_delta(r)
        n == Len(r.listContents)
        calls == [i \in 1..n |->
                    [id |-> r.listContents[n + 1 - i].id, delta |-> iDelta]]
    IN  [ cont |-> r,
          saves |-> calls,
          steps |-> <<[op |-> "resize"], [op |-> "delta", delta |-> iDelta]>>
                    \o [i \in 1..Len(calls) |->
                          [op |-> "save", id |-> calls[i].id, delta |-> calls[i].delta]] ]

\* Mpeg4Container::save: the container after resize() and the save call made
\* on each child, in the order made
Mpeg4Container_save(c) ==
    LET r == resize(c)
        iDelta == save_delta(r)
        calls == [i \in 1..Len(r.listContents) |->
                    [id |-> r.listContents[i].id, delta |-> iDelta]]
    IN  [ cont |-> r,
          saves |-> calls,
          steps |-> <<[op |-> "resize"], [op |-> "delta", delta |-> iDelta]>>
                    \o [i \in 1..Len(calls) |->
                          [op |-> "save", id |-> calls[i].id, delta |-> calls[i].delta]] ]

----------------------------------------------------------------------------
(* Operations on the container                                             *)

\* The read positions a caller's stream has when it is handed to load: a
\* stream just opened, or one opened at (or moved to) its end
StreamPositions(f) == {0, f.length}

\* iSize of load: seekg(0, end), tellg(), seekg(0, beg)
load_iSize_seekEnd(f, pos) == f.length

\* iSize of load where the seek is commented out: tellg() alone
load_iSize_tellg(f, pos) == pos

\* the two definitions of Mpeg4Container::load the file holds
load_iSize(f, pos) == {load_iSize_seekEnd(f, pos), load_iSize_tellg(f, pos)}

InitContainer ==
    /\ beat = NoBeat
    /\ mp4 \in InputFiles
    /\ cont = NULL
    /\ parsed = <<>>
    /\ inserted = NULL
    /\ saves = <<>>
    /\ lastOp = "none"
    /\ exited = FALSE
    /\ loadSpan = 0
    /\ edit = NULL
    /\ steps = <<>>
    /\ resaved = FALSE
    /\ fs = <<>>
    /\ box = NULL
    /\ boxFrom = "none"
    /\ fsOut = <<>>
    /\ saved = NULL
    /\ call = NoCall
    /\ display = NoDisplay

\* c = Mpeg4Container::load(fsIn) on a stream whose read position is pos:
\* iSize, load_multiple over [0, iSize), then the container
ContainerLoad(pos, iSize) ==
    /\ ~exited
    /\ pos \in StreamPositions(mp4)
    /\ iSize \in load_iSize(mp4, pos)
    /\ cont = NULL
    /\ lastOp = "none"
    /\ LET list == load_multiple(mp4, 0, iSize)
       IN  /\ parsed' = list
           /\ cont' = Mpeg4Container_load(list)
    /\ loadSpan' = iSize
    /\ lastOp' = "load"
    /\ UNCHANGED <<mp4, inserted, saves, exited, edit, steps, resaved>>
    /\ UNCHANGED sa3dVars
    /\ UNCHANGED beat

InsertedId == MaxBoxes + 1

\* The boxes a caller injects: an SA3D box made by create(n), a free box, a
\* further media-data box
InsertKinds ==
    { [ id |-> InsertedId, name |-> b.name, position |-> b.position,
        headerSize |-> b.headerSize, contentSize |-> b.contentSize ] :
        b \in { SA3DBox_create(1, Zero32), SA3DBox_create(4, Zero32) } }
    \cup
    { [ id |-> InsertedId, name |-> TAG_FREE, position |-> Zero32,
        headerSize |-> 8, contentSize |-> Zero32 ],
      [ id |-> InsertedId, name |-> TAG_MDAT, position |-> Zero32,
        headerSize |-> 8, contentSize |-> U32(4) ] }

InsertAt(lst, k, b) == SubSeq(lst, 1, k - 1) \o <<b>> \o SubSeq(lst, k, Len(lst))

\* The caller inserts one box into the child list of the loaded container,
\* before it saves the container
Insert(k, b) ==
    /\ ~exited
    /\ cont # NULL
    /\ lastOp = "load"
    /\ inserted = NULL
    /\ edit = NULL
    /\ k \in 1..(Len(cont.listContents) + 1)
    /\ cont' = [cont EXCEPT !.listContents = InsertAt(@, k, b)]
    /\ inserted' = b
    /\ lastOp' = "insert"
    /\ resaved' = FALSE
    /\ UNCHANGED <<mp4, parsed, saves, exited, loadSpan, edit, steps>>
    /\ UNCHANGED sa3dVars
    /\ UNCHANGED beat

EditKinds == {"remove", "grow", "shrink"}

\* the number of bytes by which a child's content grows or shrinks
EditStep == 4

\* The child list after the change of its k-th box
EditList(lst, k, kind) ==
    CASE kind = "remove" -> SubSeq(lst, 1, k - 1) \o SubSeq(lst, k + 1, Len(lst))
      [] kind = "grow"   -> [lst EXCEPT ![k].contentSize = Add32(@, U32(EditStep))]
      [] kind = "shrink" -> [lst EXCEPT ![k].contentSize = Sub32(@, U32(EditStep))]

\* The caller removes one box from the child list of the loaded container, or
\* changes the content of one box so that it grows or shrinks, before it saves
\* the container
ChildEdit(k, kind) ==
    /\ ~exited
    /\ cont # NULL
    /\ lastOp = "load"
    /\ inserted = NULL
    /\ edit = NULL
    /\ k \in 1..Len(cont.listContents)
    /\ kind = "shrink" => Nat32(cont.listContents[k].contentSize) >= EditStep
    /\ cont' = [cont EXCEPT !.listContents = EditList(@, k, kind)]
    /\ edit' = [kind |-> kind, index |-> k, b |-> cont.listContents[k]]
    /\ lastOp' = "edit"
    /\ resaved' = FALSE
    /\ UNCHANGED <<mp4, parsed, inserted, saves, exited, loadSpan, steps>>
    /\ UNCHANGED sa3dVars
    /\ UNCHANGED beat

\* c->save(fsIn, fsOut, 0)
ContainerSave ==
    /\ ~exited
    /\ cont # NULL
    /\ resaved' = (lastOp = "save")
    /\ LET r == Mpeg4Container_save(cont)
       IN  /\ cont' = r.cont
           /\ saves' = r.saves
           /\ steps' = r.steps
    /\ lastOp' = "save"
    /\ UNCHANGED <<mp4, parsed, inserted, exited, loadSpan, edit>>
    /\ UNCHANGED sa3dVars
    /\ UNCHANGED beat

\* c->merge(pElement), on a container loaded or changed and not yet saved
Merge(pElement) ==
    /\ ~exited
    /\ cont # NULL
    /\ lastOp # "save"
    /\ LET r == Mpeg4Container_merge(cont, pElement)
       IN  /\ cont' = r.cont
           /\ exited' = r.exited
    /\ lastOp' = "merge"
    /\ UNCHANGED <<mp4, parsed, inserted, saves, loadSpan, edit, steps, resaved>>
    /\ UNCHANGED sa3dVars
    /\ UNCHANGED beat

\* The elements handed to merge; merge does not look at its argument
MergeElements == {b \in InsertKinds : b.name = TAG_FREE}

NextContainer ==
    \/ \E pos \in StreamPositions(mp4) :
         \E iSize \in load_iSize(mp4, pos) : ContainerLoad(pos, iSize)
    \/ \E k \in 1..(MaxBoxes + 1), b \in InsertKinds : Insert(k, b)
    \/ \E k \in 1..MaxBoxes, kind \in EditKinds : ChildEdit(k, kind)
    \/ ContainerSave
    \/ \E b \in MergeElements : Merge(b)

SpecContainer == InitContainer /\ [][NextContainer]_vars

----------------------------------------------------------------------------
(* Properties of the container                                             *)

Count(lst, tag) == Cardinality({i \in 1..Len(lst) : lst[i].name = tag})
Has(lst, tag) == \E i \in 1..Len(lst) : lst[i].name = tag
FirstIndex(lst, tag) ==
    CHOOSE i \in 1..Len(lst) :
      lst[i].name = tag /\ \A j \in 1..(i - 1) : lst[j].name # tag

\* the pointer p refers to a child of the list, and that child has the tag
PointsTo(lst, p, tag) ==
    /\ p # NULLPTR
    /\ \E i \in 1..Len(lst) : lst[i].id = p /\ lst[i].name = tag /\ lst[i] = parsed[i]

\* C5: load returns null whenever the parsed list has no 'moov' or no 'mdat'
\* box; when it has both plus one 'ftyp' and one 'free', load returns a
\* container whose four references are non-null and each points to the child
\* of the list with that tag.
C5_ContainerCompleteness ==
    lastOp = "load" =>
      /\ (~Has(parsed, TAG_MOOV) \/ ~Has(parsed, TAG_MDAT)) => cont = NULL
      /\ ( /\ Has(parsed, TAG_MOOV) /\ Has(parsed, TAG_MDAT)
           /\ Count(parsed, TAG_FTYP) = 1 /\ Count(parsed, TAG_FREE) = 1 ) =>
           /\ cont # NULL
           /\ cont.listContents = parsed
           /\ PointsTo(cont.listContents, cont.pMoovBox, TAG_MOOV)
           /\ PointsTo(cont.listContents, cont.pFirstMDatBox, TAG_MDAT)
           /\ PointsTo(cont.listContents, cont.pFTYPBox, TAG_FTYP)
           /\ PointsTo(cont.listContents, cont.pFreeBox, TAG_FREE)

C5_Witness ==
    /\ lastOp = "load"
    /\ cont # NULL
    /\ Len(parsed) = 4
    /\ Count(parsed, TAG_MOOV) = 1 /\ Count(parsed, TAG_MDAT) = 1
    /\ Count(parsed, TAG_FTYP) = 1 /\ Count(parsed, TAG_FREE) = 1
    /\ cont.pFTYPBox # NULLPTR /\ cont.pFreeBox # NULLPTR

C5_WitnessMissing ==
    /\ lastOp = "load"
    /\ cont = NULL
    /\ Has(parsed, TAG_MOOV) /\ ~Has(parsed, TAG_MDAT)

\* C6: with several 'mdat' boxes in the list, the first-media-data reference is
\* the 'mdat' box that comes first in list order, firstMediaDataPosition is
\* that box's position plus its header size, whatever the sizes, and every
\* later 'mdat' box stays in the child list.
C6_FirstMdatWins ==
    (lastOp = "load" /\ cont # NULL /\ Count(parsed, TAG_MDAT) >= 2) =>
      LET first == parsed[FirstIndex(parsed, TAG_MDAT)]
      IN  /\ cont.pFirstMDatBox = first.id
          /\ cont.iFirstMDatPos = U32(Nat32(first.position) + first.headerSize)
          /\ \A i \in 1..Len(parsed) :
               parsed[i].name = TAG_MDAT =>
                 \E j \in 1..Len(cont.listContents) : cont.listContents[j] = parsed[i]

\* two 'mdat' boxes of different sizes, the larger one second
C6_Witness ==
    /\ lastOp = "load" /\ cont # NULL
    /\ Count(parsed, TAG_MDAT) = 2
    /\ LET i == FirstIndex(parsed, TAG_MDAT)
       IN  /\ parsed[i].headerSize = 8
           /\ i > 1
           /\ \E j \in (i + 1)..Len(parsed) :
                parsed[j].name = TAG_MDAT /\ parsed[j].headerSize = 16
           /\ cont.pFirstMDatBox = parsed[i].id

InsertedIndex ==
    CHOOSE i \in 1..Len(cont.listContents) : cont.listContents[i].id = InsertedId

InsertedBeforeFirstMdat ==
    /\ inserted # NULL
    /\ Has(cont.listContents, TAG_MDAT)
    /\ InsertedIndex < FirstIndex(cont.listContents, TAG_MDAT)

\* C7: for a loaded container whose boxes are contiguous from offset 0,
\* inserting one box into the child list before the first 'mdat' box and
\* calling save makes the delta passed to every child's save equal to the
\* inserted box's size(), no other box having changed size.
C7_DeltaIsInsertedSize ==
    (lastOp = "save" /\ cont # NULL /\ InsertedBeforeFirstMdat) =>
      /\ Len(saves) = Len(cont.listContents)
      /\ \A i \in 1..Len(saves) :
           saves[i].delta = U32(inserted.headerSize + Nat32(inserted.contentSize))

C7_Witness ==
    /\ lastOp = "save" /\ cont # NULL /\ InsertedBeforeFirstMdat
    /\ inserted.name = TAG_SA3D
    /\ Len(saves) >= 3
    /\ saves[1].delta = U32(36)

\* C8: merge, called on any container with any argument, terminates the
\* process instead of returning; up to the termination the child list, the
\* tracked references and the content size are unmodified.
C8_MergeTerminates ==
    [][ /\ ~exited
        /\ lastOp' = "merge" => (exited' /\ cont' = cont) ]_vars

C8_Witness == lastOp = "merge" /\ exited /\ cont # NULL

LastIndex(lst, tag) ==
    CHOOSE i \in 1..Len(lst) :
      lst[i].name = tag /\ \A j \in (i + 1)..Len(lst) : lst[j].name # tag

Loaded == lastOp = "load" /\ cont # NULL

\* C12 as stated: with several 'ftyp', several 'moov' or several 'free' boxes
\* in the list, load records for each of these tags the first box with that
\* tag in list order, as it does for 'mdat'.
C12_FirstMatchWins ==
    Loaded =>
      /\ cont.pMoovBox = parsed[FirstIndex(parsed, TAG_MOOV)].id
      /\ Has(parsed, TAG_FTYP) => cont.pFTYPBox = parsed[FirstIndex(parsed, TAG_FTYP)].id
      /\ Has(parsed, TAG_FREE) => cont.pFreeBox = parsed[FirstIndex(parsed, TAG_FREE)].id
      /\ cont.pFirstMDatBox = parsed[FirstIndex(parsed, TAG_MDAT)].id

\* C12 amended: for 'ftyp', 'moov' and 'free' load records the last box with
\* that tag in list order; only for 'mdat' does it record the first.
C12_LastMatchWins ==
    Loaded =>
      /\ cont.pMoovBox = parsed[LastIndex(parsed, TAG_MOOV)].id
      /\ Has(parsed, TAG_FTYP) => cont.pFTYPBox = parsed[LastIndex(parsed, TAG_FTYP)].id
      /\ Has(parsed, TAG_FREE) => cont.pFreeBox = parsed[LastIndex(parsed, TAG_FREE)].id
      /\ ~Has(parsed, TAG_FTYP) => cont.pFTYPBox = NULLPTR
      /\ ~Has(parsed, TAG_FREE) => cont.pFreeBox = NULLPTR
      /\ cont.pFirstMDatBox = parsed[FirstIndex(parsed, TAG_MDAT)].id

C12_Witness ==
    /\ Loaded
    /\ Count(parsed, TAG_MOOV) = 2
    /\ Count(parsed, TAG_FTYP) = 1
    /\ cont.pMoovBox = parsed[LastIndex(parsed, TAG_MOOV)].id
    /\ cont.pMoovBox # parsed[FirstIndex(parsed, TAG_MOOV)].id

RECURSIVE NatSum(_)
NatSum(lst) ==
    IF lst = <<>> THEN 0
    ELSE Head(lst).headerSize + Nat32(Head(lst).contentSize) + NatSum(Tail(lst))

\* C18: after a successful load the content size of the container is the sum
\* of size() over every top-level child, each 'mdat' box and each box the
\* container keeps no reference to included.
C18_ContentSizeIsSum ==
    Loaded =>
      /\ cont.listContents = parsed
      /\ Nat32(cont.contentSize) = NatSum(parsed)

C18_Witness ==
    /\ Loaded
    /\ Count(parsed, TAG_MDAT) = 2
    /\ Count(parsed, TAG_UUID) = 1
    /\ Nat32(cont.contentSize) = NatSum(parsed)
    /\ Nat32(cont.contentSize) > 0

\* C19 as stated: load parses the span [0, L) with L the total byte length of
\* the stream, whatever the read position of the stream when load is called,
\* a stream just opened at offset 0 included.
C19_SpanIsWholeFile ==
    lastOp = "load" =>
      /\ loadSpan = mp4.length
      /\ parsed = load_multiple(mp4, 0, mp4.length)

\* where the i-th box of the file starts
StartOf(i) == TotalLength(SubSeq(mp4.boxes, 1, i - 1))

\* the load of a box of the span [0, loadSpan) fails: the box starts inside
\* the span and ends beyond it
BoxLoadFails ==
    \E i \in 1..Len(mp4.boxes) :
      /\ StartOf(i) < loadSpan
      /\ StartOf(i + 1) > loadSpan

\* C14: when the load of any top-level box of the span fails, load returns
\* null; a container is returned only when the whole span was parsed into
\* boxes and both required boxes are among them.
C14_FailedBoxGivesNull ==
    lastOp = "load" =>
      /\ BoxLoadFails => cont = NULL
      /\ cont # NULL =>
           /\ NatSum(parsed) = loadSpan
           /\ cont.listContents = parsed
           /\ \A i \in 1..Len(parsed) : parsed[i].name = mp4.boxes[i].name
           /\ Has(parsed, TAG_MOOV) /\ Has(parsed, TAG_MDAT)

\* a file with both required boxes whose last box is cut short
C14_Witness ==
    /\ lastOp = "load"
    /\ loadSpan = mp4.length
    /\ BoxLoadFails
    /\ Has(mp4.boxes, TAG_MOOV) /\ Has(mp4.boxes, TAG_MDAT)
    /\ ~(StartOf(Len(mp4.boxes)) >= loadSpan)
    /\ mp4.boxes[1].name = TAG_MOOV /\ mp4.boxes[2].name = TAG_MDAT
    /\ Len(mp4.boxes) >= 3
    /\ cont = NULL

\* the value of a uint32_t converted to int32_t
Int32(v) == IF v[1] >= 32768 THEN (v[1] - Half) * Half + v[2] ELSE Nat32(v)

\* the sizes of the children before the first 'mdat' child of the list, plus
\* that child's header size
NewMediaDataPosition(lst) ==
    LET k == FirstIndex(lst, TAG_MDAT)
    IN  NatSum(SubSeq(lst, 1, k - 1)) + lst[k].headerSize

\* a box other than 'mdat' was inserted before the first 'mdat' child
InsertedAhead ==
    /\ inserted # NULL /\ inserted.name # TAG_MDAT
    /\ InsertedIndex < FirstIndex(cont.listContents, TAG_MDAT)

\* the change was made to a box that stood before the first 'mdat' child
EditedAhead(kinds) ==
    /\ edit # NULL /\ edit.kind \in kinds
    /\ edit.index < FirstIndex(parsed, TAG_MDAT)

\* C16: the delta of save is (the sum of size() of the children before the
\* first 'mdat' of the current list, plus that box's header size) minus
\* firstMediaDataPosition, taken as a signed 32-bit value: positive when boxes
\* before the 'mdat' grew or were inserted, negative when they shrank or were
\* removed.
C16_DeltaSigned ==
    (lastOp = "save" /\ cont # NULL /\ Has(cont.listContents, TAG_MDAT)) =>
      LET d == NewMediaDataPosition(cont.listContents) - Nat32(cont.iFirstMDatPos)
      IN  /\ \A i \in 1..Len(saves) : Int32(saves[i].delta) = d
          /\ (InsertedAhead \/ EditedAhead({"grow"})) => d > 0
          /\ EditedAhead({"shrink", "remove"}) => d < 0

\* a box before the first 'mdat' was removed and the delta passed on is negative
C16_Witness ==
    /\ lastOp = "save" /\ cont # NULL
    /\ EditedAhead({"remove"})
    /\ Len(saves) >= 2
    /\ Int32(saves[1].delta) < 0

\* C17: save takes its steps in the order resize(), computation of the delta,
\* the children's saves: every child is saved exactly once, in list order,
\* with the same delta, and no child is saved before the delta is final.
C17_SaveStepOrder ==
    (lastOp = "save" /\ cont # NULL) =>
      LET n == Len(cont.listContents)
      IN  /\ Len(steps) = n + 2
          /\ steps[1].op = "resize"
          /\ steps[2].op = "delta"
          /\ \A i \in 1..n :
               /\ steps[i + 2].op = "save"
               /\ steps[i + 2].id = cont.listContents[i].id
               /\ steps[i + 2].delta = steps[2].delta
          /\ \A i \in 1..n :
               Cardinality({j \in 1..Len(steps) :
                              steps[j].op = "save" /\ steps[j].id = cont.listContents[i].id}) = 1
          /\ cont.contentSize = SumSizes(cont.listContents)

\* a save of several children after an insertion, with a delta that is not zero
C17_Witness ==
    /\ lastOp = "save" /\ cont # NULL
    /\ inserted # NULL
    /\ Len(cont.listContents) >= 3
    /\ Len(steps) = Len(cont.listContents) + 2
    /\ steps[2].delta # Zero32
    /\ steps[Len(steps)].op = "save"

Ids(lst) == [i \in 1..Len(lst) |-> lst[i].id]

\* C20: save leaves firstMediaDataPosition, the four references and the order
\* and membership of the child list as they were, so that saves made in a row
\* compute the same delta.
C20_SaveKeepsPosition ==
    [][ (cont # NULL /\ lastOp' = "save") =>
          /\ cont'.iFirstMDatPos = cont.iFirstMDatPos
          /\ cont'.pMoovBox = cont.pMoovBox
          /\ cont'.pFreeBox = cont.pFreeBox
          /\ cont'.pFirstMDatBox = cont.pFirstMDatBox
          /\ cont'.pFTYPBox = cont.pFTYPBox
          /\ Ids(cont'.listContents) = Ids(cont.listContents)
          /\ lastOp = "save" =>
               /\ saves' = saves
               /\ steps'[2] = steps[2] ]_vars

\* a save directly after another one, both after an insertion, the delta not zero
C20_Witness ==
    /\ lastOp = "save" /\ cont # NULL
    /\ resaved
    /\ inserted # NULL
    /\ saves # <<>>
    /\ saves[1].delta # Zero32

\* each box of the loaded list stands where the boxes before it end, the
\* first at offset 0
Contiguous ==
    \A i \in 1..Len(parsed) : parsed[i].position = U32(NatSum(SubSeq(parsed, 1, i - 1)))

\* no box was inserted into the list, removed from it or changed since load
Unchanged == inserted = NULL /\ edit = NULL /\ cont.listContents = parsed

\* C21: for a container returned by load whose top-level boxes are contiguous
\* from offset 0, a save made with no change of the tree computes the delta 0.
C21_UnchangedDeltaZero ==
    (lastOp = "save" /\ cont # NULL /\ Contiguous /\ Unchanged) =>
      /\ steps[2].delta = Zero32
      /\ Len(saves) = Len(parsed)
      /\ \A i \in 1..Len(saves) : saves[i].delta = Zero32

\* an unchanged container saved, its first 'mdat' box having the 16-byte
\* header and two boxes before it
C21_Witness ==
    /\ lastOp = "save" /\ cont # NULL /\ Contiguous /\ Unchanged
    /\ FirstIndex(parsed, TAG_MDAT) = 3
    /\ parsed[3].headerSize = 16
    /\ Nat32(cont.iFirstMDatPos) > 16
    /\ saves[1].delta = Zero32

----------------------------------------------------------------------------
(* The beat-marker audio filter                                            *)

FFT_SIZE == 1024
HOP_SIZE == 512

MaxFrameSamples == 4096  \* the longest audio frame the host delivers

\* The sample counts of the frames the host delivers
FrameSampleCounts ==
    {0, 1, HOP_SIZE, FFT_SIZE - 1, FFT_SIZE, FFT_SIZE + 1, MaxFrameSamples}

Min(a, b) == IF a < b THEN a ELSE b

\* What the read of samples[i] from a buffer of len doubles does: inside the
\* buffer it yields the sample; beyond it the behaviour is undefined, the
\* read yields whatever follows the buffer or faults
ReadOutcomes(i, len) == IF i < len THEN {"value"} ELSE {"garbage", "fault"}

\* beatmarker_filter_init: private_init, is_initialized = (rdft != nullptr)
FilterInit(rdftOk) ==
    /\ beat.filter = "none"
    /\ beat' = [beat EXCEPT !.filter = "open", !.is_initialized = rdftOk]
    /\ UNCHANGED sa3dVars
    /\ UNCHANGED contVars

\* filter_get_audio up to the first pass of the loop of detect_beat: the
\* audio of the frame, the mono buffer of *samples doubles,
\* samples_to_process = min(*samples, FFT_SIZE), then detect_beat, which
\* returns at once when the private data is not initialized (filter->child is
\* set by beatmarker_filter_init, so self is not null while the filter is open)
FilterGetAudio(error, samples) ==
    /\ beat.filter = "open"
    /\ beat.pc = "idle"
    /\ beat' =
         IF error THEN beat
         ELSE LET samples_to_process == Min(samples, FFT_SIZE)
              IN  [beat EXCEPT !.mono_size = samples,
                               !.num_samples = samples_to_process,
                               !.i = 0,
                               !.read = -1,
                               !.pc = IF beat.is_initialized THEN "window" ELSE "idle"]
    /\ UNCHANGED sa3dVars
    /\ UNCHANGED contVars

\* One pass of the loop of detect_beat: fft_in[i] = samples[i] * window
WindowStep(outcome) ==
    /\ beat.pc = "window"
    /\ beat.i < FFT_SIZE
    /\ outcome \in ReadOutcomes(beat.i, beat.mono_size)
    /\ beat' = [beat EXCEPT !.read = beat.i,
                            !.i = IF outcome = "fault" THEN @ ELSE @ + 1,
                            !.pc = IF outcome = "fault" THEN "fault" ELSE @]
    /\ UNCHANGED sa3dVars
    /\ UNCHANGED contVars

\* The rest of detect_beat and of filter_get_audio, which read fft_in, fft_out
\* and energy_buffer and no sample
DetectFinish ==
    /\ beat.pc = "window"
    /\ beat.i = FFT_SIZE
    /\ beat' = [beat EXCEPT !.pc = "idle"]
    /\ UNCHANGED sa3dVars
    /\ UNCHANGED contVars

\* beatmarker_filter_close
FilterClose ==
    /\ beat.filter = "open"
    /\ beat.pc = "idle"
    /\ beat' = [beat EXCEPT !.filter = "closed", !.is_initialized = FALSE]
    /\ UNCHANGED sa3dVars
    /\ UNCHANGED contVars

InitBeat == InitSA3D

NextBeat ==
    \/ \E rdftOk \in BOOLEAN : FilterInit(rdftOk)
    \/ \E error \in BOOLEAN, samples \in FrameSampleCounts : FilterGetAudio(error, samples)
    \/ \E outcome \in {"value", "garbage", "fault"} : WindowStep(outcome)
    \/ DetectFinish
    \/ FilterClose

SpecBeat == InitBeat /\ [][NextBeat]_vars

\* C22 as stated: for every audio frame, of any sample count, detect_beat
\* reads only sample indices below the num_samples it is given, and so never
\* reads beyond the mono buffer filter_get_audio built for the frame.
C22_ReadsWithinFrame ==
    beat.read >= 0 =>
      /\ beat.read < beat.num_samples
      /\ beat.read < beat.mono_size

====
